---------------------------- MODULE Spec2Model ----------------------------
(***************************************************************************)
(* A model of the unzip tool: src/src/core/unzip_service.py (the          *)
(* reorganization pipeline), src/src/core/archive.py (header sniffing and  *)
(* extract_archive with its merge fallback) and                            *)
(* src/src/utils/file_helper.py (the file helpers).                        *)
(*                                                                         *)
(* File names are strings and paths are sequences of names, so that the    *)
(* name conventions of the code (stem, split, endswith, startswith) are    *)
(* computed as the code computes them.  A file system is a set of nodes    *)
(* [path, blob]; the blob "DIR" marks a directory.  File contents are      *)
(* named blobs whose leading bytes (hex) and archive contents are given    *)
(* by the tables Header, Entries and Fragments below.                      *)
(***************************************************************************)
EXTENDS Integers, Sequences, FiniteSets, TLC

(***************************************************************************)
(* Strings, as Python computes on them                                     *)
(***************************************************************************)

\* the characters of the names used, in code point order
Alphabet == " .0123456789ABCDEFGHIJKLMNOPQRSTUVWXYZ[]_abcdefghijklmnopqrstuvwxyz"

UpperChars == "ABCDEFGHIJKLMNOPQRSTUVWXYZ"

LowerChars == "abcdefghijklmnopqrstuvwxyz"

Digits == "0123456789"

CharAt(s, i) == SubSeq(s, i, i)

\* ord(c), up to an order-preserving renumbering
Ord(c) == CHOOSE i \in 1..Len(Alphabet) : CharAt(Alphabet, i) = c

\* s.startswith(t)
StartsWith(s, t) == Len(s) >= Len(t) /\ SubSeq(s, 1, Len(t)) = t

\* s.endswith(t)
EndsWith(s, t) == Len(s) >= Len(t) /\ SubSeq(s, Len(s) - Len(t) + 1, Len(s)) = t

\* the positions (1-based) at which t occurs in s
Occurrences(s, t) == {i \in 1..(Len(s) - Len(t) + 1) : SubSeq(s, i, i + Len(t) - 1) = t}

\* t in s
Contains(s, t) == Occurrences(s, t) # {}

SetMin(S) == CHOOSE x \in S : \A y \in S : x <= y

SetMax(S) == CHOOSE x \in S : \A y \in S : y <= x

\* s.index(t) and s.rindex(t), 1-based; 0 stands for the ValueError
Index(s, t) == IF Contains(s, t) THEN SetMin(Occurrences(s, t)) ELSE 0

RIndex(s, t) == IF Contains(s, t) THEN SetMax(Occurrences(s, t)) ELSE 0

\* s.split(t)[0]
SplitFirst(s, t) == IF Contains(s, t) THEN SubSeq(s, 1, Index(s, t) - 1) ELSE s

LowerChar(c) ==
    IF Contains(UpperChars, c) THEN CharAt(LowerChars, Index(UpperChars, c)) ELSE c

RECURSIVE Lower(_)
\* s.lower()
Lower(s) == IF s = "" THEN "" ELSE LowerChar(CharAt(s, 1)) \o Lower(SubSeq(s, 2, Len(s)))

\* str < str
RECURSIVE StrLess(_, _)
StrLess(s, t) ==
    IF t = "" THEN FALSE
    ELSE IF s = "" THEN TRUE
    ELSE IF CharAt(s, 1) = CharAt(t, 1) THEN StrLess(SubSeq(s, 2, Len(s)), SubSeq(t, 2, Len(t)))
    ELSE Ord(CharAt(s, 1)) < Ord(CharAt(t, 1))

IsDigit(c) == Len(c) = 1 /\ Contains(Digits, c)

DigitVal(c) == Index(Digits, c) - 1

\* pathlib: PurePath.suffix and PurePath.stem of a name
Suffix(name) ==
    LET i == RIndex(name, ".")
    IN  IF i > 1 /\ i < Len(name) THEN SubSeq(name, i, Len(name)) ELSE ""

Stem(name) ==
    LET i == RIndex(name, ".")
    IN  IF i > 1 /\ i < Len(name) THEN SubSeq(name, 1, i - 1) ELSE name

(***************************************************************************)
(* Paths: sequences of names                                               *)
(***************************************************************************)

Name(p) == p[Len(p)]

Parent(p) == SubSeq(p, 1, Len(p) - 1)

IsPrefix(p, q) == Len(p) <= Len(q) /\ SubSeq(q, 1, Len(p)) = p

\* q.relative_to(p)
RelativeTo(q, p) == SubSeq(q, Len(p) + 1, Len(q))

\* Path < Path: the parts compared as tuples of strings
RECURSIVE PathLess(_, _)
PathLess(p, q) ==
    IF q = <<>> THEN FALSE
    ELSE IF p = <<>> THEN TRUE
    ELSE IF Head(p) = Head(q) THEN PathLess(Tail(p), Tail(q))
    ELSE StrLess(Head(p), Head(q))

(***************************************************************************)
(* The file system: a set of nodes [path, blob]                            *)
(***************************************************************************)

DIR == "DIR"

Node(p, b) == [path |-> p, blob |-> b]

Exists(f, p) == \E n \in f : n.path = p

IsFile(f, p) == \E n \in f : n.path = p /\ n.blob # DIR

IsDir(f, p) == \E n \in f : n.path = p /\ n.blob = DIR

BlobAt(f, p) == (CHOOSE n \in f : n.path = p).blob

\* shutil.rmtree(p), and Path.unlink() of a file
RmTree(f, p) == {n \in f : ~IsPrefix(p, n.path)}

Unlink(f, p) == {n \in f : n.path # p}

\* p.mkdir(parents=True, exist_ok=True)
MkDirs(f, p) ==
    f \cup {Node(SubSeq(p, 1, k), DIR) : k \in {j \in 1..Len(p) : ~Exists(f, SubSeq(p, 1, j))}}

\* a file written at p (its parent directories made, what was at p replaced)
WriteFile(f, p, b) == MkDirs(RmTree(f, p), Parent(p)) \cup {Node(p, b)}

\* shutil.move(src, dst), dst not existing: the subtree at src renamed to dst
Move(f, src, dst) ==
    {n \in f : ~IsPrefix(src, n.path)}
      \cup {Node(dst \o RelativeTo(n.path, src), n.blob) : n \in {m \in f : IsPrefix(src, m.path)}}

\* directory.rglob('*') and directory.iterdir(), as sets of paths
RGlob(f, d) == {n.path : n \in {m \in f : IsPrefix(d, m.path) /\ m.path # d}}

IterDir(f, d) == {p \in RGlob(f, d) : Len(p) = Len(d) + 1}

\* FileHelper.make_directory
make_directory(f, p) == MkDirs(RmTree(f, p), p)

\* FileHelper.contains_files
contains_files(f, d) == IsDir(f, d) /\ \E p \in RGlob(f, d) : IsFile(f, p)

\* FileHelper.get_file_list
get_file_list(f, d) == {p \in RGlob(f, d) : IsFile(f, p)}

\* sorted(paths): the paths of a set in ascending order
RECURSIVE SortPaths(_)
SortPaths(S) ==
    IF S = {} THEN <<>>
    ELSE LET m == CHOOSE p \in S : \A q \in S : q = p \/ PathLess(p, q)
         IN  <<m>> \o SortPaths(S \ {m})

\* the elements of a sequence
Range(s) == {s[i] : i \in 1..Len(s)}

(***************************************************************************)
(* File contents and the codecs                                            *)
(***************************************************************************)

\* ArchiveConfig: the magic sequences (hex) and the number of bytes read
SEVEN_ZIP_HEADER == "377abcaf271c"

ZIP_HEADER == "504b03"

RAR_HEADER == "526172"

HEADER_BYTES == 20

\* ArchiveType
SEVEN_ZIP == "7z"

ZIP == "zip"

RAR == "rar"

UNKNOWN == "unknown"

\* the contents the model draws files from
Blobs ==
    {"txt", "zTxt", "zZip", "zBad", "zHasBad", "zDeep", "zTwo", "zPart", "rPart", "zOdd",
     "zOddIn", "s1", "s2", "t1", "t2", "t3",
     "r1", "r2", "r10", "q1", "q2", "zDirOnly", "zAlbum", "zWrap"}

\* the bytes of a blob, in hex
\* a blob named RAW followed by hex digits is a file of just those bytes
RAW == "x"

Bytes(b) ==
    CASE b = "txt"  -> "68656c6c6f20776f726c64"
      [] b = "s1"   -> "377abcaf271c00040102030405060708090a0b0c0d0e0f10111213"
      [] b = "s2"   -> "a1b2c3d4e5f6"
      [] b = "t1"   -> "504b0304140000000800aabb"
      [] b = "t2"   -> "0f1e2d3c4b5a"
      [] b = "t3"   -> "99887766"
      [] b = "r1"   -> "526172211a0700cf907300000d00"
      [] b = "r2"   -> "526172211a0700cf907300000d01"
      [] b = "r10"  -> "526172211a0700cf907300000d09"
      [] b = "q1"   -> "526172211a0700cf907300000d00aa"
      [] b = "q2"   -> "526172211a0700cf907300000d01aa"
      [] b = "rPart" -> "526172211a0700cf9073"
      [] b \in {"zTxt", "zZip", "zBad", "zHasBad", "zDeep", "zTwo", "zPart", "zOdd", "zOddIn",
                 "zDirOnly", "zAlbum", "zWrap"}
                    -> "504b0304140000000800"
      [] StartsWith(b, RAW) -> SubSeq(b, Len(RAW) + 1, Len(b))
      [] OTHER      -> ""

\* the files an archive holds: [path, blob], paths relative to the output directory
Entries(b) ==
    CASE b = "zTxt"    -> {Node(<<"file.txt">>, "txt")}
      [] b = "zZip"    -> {Node(<<"inner.zip">>, "zTxt")}
      [] b = "zHasBad" -> {Node(<<"bad.zip">>, "zBad"), Node(<<"ok.txt">>, "txt")}
      [] b = "zDeep"   -> {Node(<<"outer", "inner", "file.txt">>, "txt"),
                           Node(<<"notes.txt">>, "txt")}
      [] b = "zTwo"    -> {Node(<<"x.zip">>, "zTxt"), Node(<<"y.zip">>, "zDeep")}
      [] b = "zPart"   -> {Node(<<"part1.rar">>, "rPart")}
      [] b = "rPart"   -> {Node(<<"file.txt">>, "txt")}
      [] b = "zOdd"    -> {Node(<<"inner.zip">>, "zOddIn")}
      [] b = "zOddIn"  -> {Node(<<"data.part1.txt">>, "txt")}
      [] b = "sAll"    -> {Node(<<"movie.txt">>, "txt")}
      [] b = "tAll"    -> {Node(<<"album", "one.txt">>, "txt")}
      [] b = "rAll"    -> {Node(<<"clip.txt">>, "txt")}
      [] b = "qAll"    -> {Node(<<"film.txt">>, "txt")}
      [] b = "zDirOnly" -> {Node(<<"empty">>, DIR)}
      [] b = "zAlbum"  -> {Node(<<"album", "one.txt">>, "txt")}
      [] b = "zWrap"   -> {Node(<<"w.zip">>, "zHasBad")}
      [] OTHER         -> {}

\* a blob that is a whole, valid archive on its own
Complete(b) ==
    b \in {"zTxt", "zZip", "zHasBad", "zDeep", "zTwo", "zPart", "rPart", "zOdd", "zOddIn",
           "zDirOnly", "zAlbum", "zWrap"}

\* the split archives: the fragments whose concatenation, in this order, is the archive
SplitArchives == {"sAll", "tAll", "rAll", "qAll"}

Fragments(a) ==
    CASE a = "sAll" -> <<"s1", "s2">>
      [] a = "tAll" -> <<"t1", "t2", "t3">>
      [] a = "rAll" -> <<"r1", "r2", "r10">>
      [] a = "qAll" -> <<"q1", "q2">>
      [] OTHER      -> <<>>

\* FileHelper.get_file_header: the hex of the first bytes_to_read bytes, None ("none")
\* when the file cannot be opened
NONE == "none"

get_file_header(f, p) ==
    IF ~IsFile(f, p) THEN NONE
    ELSE LET h == Bytes(BlobAt(f, p))
         IN  IF Len(h) > 2 * HEADER_BYTES THEN SubSeq(h, 1, 2 * HEADER_BYTES) ELSE h

\* a slip: the header compared with the magic sequence, not its start
TypeOfHeader_exact(h) ==
    IF h = NONE \/ h = "" THEN UNKNOWN
    ELSE IF h = SEVEN_ZIP_HEADER THEN SEVEN_ZIP
    ELSE IF h = ZIP_HEADER THEN ZIP
    ELSE IF h = RAR_HEADER THEN RAR
    ELSE UNKNOWN

\* ArchiveHandler.detect_archive_type on a header
TypeOfHeader(h) ==
    IF h = NONE \/ h = "" THEN UNKNOWN
    ELSE IF StartsWith(h, SEVEN_ZIP_HEADER) THEN SEVEN_ZIP
    ELSE IF StartsWith(h, ZIP_HEADER) THEN ZIP
    ELSE IF StartsWith(h, RAR_HEADER) THEN RAR
    ELSE UNKNOWN

\* a slip: the type taken from the file's extension
detect_archive_type_by_suffix(f, p) ==
    CASE Lower(Suffix(Name(p))) = ".7z"  -> SEVEN_ZIP
      [] Lower(Suffix(Name(p))) = ".zip" -> ZIP
      [] Lower(Suffix(Name(p))) = ".rar" -> RAR
      [] OTHER                           -> UNKNOWN

detect_archive_type(f, p) == TypeOfHeader(get_file_header(f, p))

\* the outcome of a call that raises
RAISED == "raised"

\* a slip: the exception of the read not caught
detect_call_raising(f, p, io) ==
    IF io = "denied" \/ ~IsFile(f, p) THEN RAISED ELSE detect_archive_type(f, p)

\* detect_archive_type where the read may fail for a reason the file system does
\* not show (io = "denied"): get_file_header catches it and returns None
detect_call(f, p, io) ==
    IF io = "denied" THEN TypeOfHeader(NONE) ELSE detect_archive_type(f, p)

\* extract_7z, extract_zip, extract_rar on one file: the codec succeeds on a whole
\* archive of its own format and raises on anything else
CodecOk(b, type) == Complete(b) /\ TypeOfHeader(Bytes(b)) = type

\* the codec on a concatenation of files (the merged file)
MergedArchive(bs) == {a \in SplitArchives : Fragments(a) = bs}

MergedOk(bs, type) ==
    \/ Len(bs) = 1 /\ CodecOk(bs[1], type)
    \/ MergedArchive(bs) # {} /\ TypeOfHeader(Bytes(bs[1])) = type

MergedEntries(bs) ==
    IF Len(bs) = 1 THEN Entries(bs[1]) ELSE UNION {Entries(a) : a \in MergedArchive(bs)}

\* extractall(path=output_dir): every entry written under the output directory
RECURSIVE WriteAll(_, _, _)
WriteAll(f, out, es) ==
    IF es = {} THEN f
    ELSE LET e == CHOOSE n \in es : TRUE
         IN  WriteAll(WriteFile(f, out \o e.path, e.blob), out, es \ {e})

(***************************************************************************)
(* The configuration and the external collaborators                        *)
(***************************************************************************)

\* PathConfig: source_dir, unzip_temp_dir (inbound staging), target_temp_dir
\* (outbound staging) and target_dir
source_dir == <<"source">>

unzip_temp_dir == <<"temp1">>

target_temp_dir == <<"temp3">>

target_dir == <<"target">>

\* PiecesDao.query_pieces_by_id: the naming metadata, NONE when there is no record
PiecesTitle(id) ==
    CASE id = "A" -> "set 2k 4k"
      [] id = "B" -> "solo."
      [] OTHER    -> NONE

RECURSIVE Replace(_, _, _)
\* s.replace(c, d), c one character
Replace(s, c, d) ==
    IF s = "" THEN ""
    ELSE (IF CharAt(s, 1) = c THEN d ELSE CharAt(s, 1)) \o Replace(SubSeq(s, 2, Len(s)), c, d)

\* UnzipService._get_path_id
get_path_id(f, path) ==
    IF IsDir(f, path) THEN Name(path) ELSE SplitFirst(Stem(Name(path)), "_")

\* UnzipService._generate_folder_name
generate_folder_name(id) ==
    IF PiecesTitle(id) = NONE THEN id
    ELSE LET folder_name == Replace("[" \o id \o "] " \o PiecesTitle(id), "/", "_")
         IN  IF EndsWith(folder_name, ".")
             THEN SubSeq(folder_name, 1, Len(folder_name) - 1)
             ELSE folder_name

\* the resolution mapping of _is_all_processed
Resolutions ==
    {<<"1k", "1080">>, <<"1K", "1080">>, <<"1080", "1080">>, <<"2k", "2k">>,
     <<"2K", "2k">>, <<"4k", "4k">>, <<"4K", "4k">>}

\* UnzipService._is_all_processed; vam: db_type == DatabaseType.VAMVIDEO
is_all_processed(f, vam, id) ==
    LET folder_name == generate_folder_name(id)
        folder_path == target_dir \o <<folder_name>>
        required    == {r[2] : r \in {q \in Resolutions : Contains(folder_name, q[1])}}
        found       == {res \in required :
                           \E item \in IterDir(f, folder_path) : Contains(Name(item), res)}
    IN  IF ~vam THEN TRUE
        ELSE IF ~Exists(f, folder_path) THEN FALSE
        ELSE IF Cardinality(required) <= 1 THEN TRUE
        ELSE found = required

(***************************************************************************)
(* Multi-part names and fragment collection                                *)
(***************************************************************************)

\* range(1, 999) and zfill(3) of _is_multipart_archive
PART_RANGE_END == 999

PART_DIGITS == 3

\* any(file_name.endswith(ext + str(i).zfill(3)) for i in range(1, 999))
EndsWithPart(file_name, ext) ==
    LET n == Len(file_name)
        d == SubSeq(file_name, n - PART_DIGITS + 1, n)
        v == 100 * DigitVal(CharAt(d, 1)) + 10 * DigitVal(CharAt(d, 2)) + DigitVal(CharAt(d, 3))
    IN  /\ n >= Len(ext) + PART_DIGITS
        /\ \A i \in 1..PART_DIGITS : IsDigit(CharAt(d, i))
        /\ v >= 1 /\ v < PART_RANGE_END
        /\ SubSeq(file_name, n - PART_DIGITS - Len(ext) + 1, n - PART_DIGITS) = ext

\* UnzipService._is_multipart_archive, on the file's name
is_multipart_archive(name) ==
    LET file_name == Lower(name)
    IN  \/ EndsWithPart(file_name, ".7z.")
        \/ EndsWithPart(file_name, ".zip.")
        \/ (StartsWith(file_name, "part") /\ EndsWith(file_name, ".rar"))
        \/ Contains(file_name, ".part")

\* the base name _collect_multipart_archive derives; ok = FALSE: rindex raised ValueError
multipart_base(name) ==
    LET file_name == Lower(name)
        cut(i) == [ok |-> TRUE, base |-> SubSeq(file_name, 1, i - 1)]
    IN  IF Contains(file_name, ".7z.") THEN cut(RIndex(file_name, ".7z."))
        ELSE IF Contains(file_name, ".zip.") THEN cut(RIndex(file_name, ".zip."))
        ELSE IF Contains(file_name, ".part") /\ EndsWith(file_name, ".rar")
             THEN cut(Index(file_name, ".part"))
        ELSE IF Contains(file_name, ".part") THEN cut(RIndex(file_name, ".part"))
        ELSE [ok |-> FALSE, base |-> ""]

\* the entries of the file's directory that _collect_multipart_archive keeps
collect_matches(f, file_path) ==
    LET base_name == multipart_base(Name(file_path)).base
        match(g) ==
            LET n == Lower(Name(g))
            IN  /\ \/ StartsWith(n, base_name \o ".7z.")
                   \/ StartsWith(n, base_name \o ".zip.")
                   \/ StartsWith(n, base_name \o ".part")
                   \/ (StartsWith(n, base_name) /\ Contains(n, ".part"))
                /\ is_multipart_archive(Name(g))
    IN  {g \in IterDir(f, Parent(file_path)) : match(g)}

\* s in reverse
Reverse(s) == [i \in 1..Len(s) |-> s[Len(s) + 1 - i]]

\* a slip: the parts left in an order iterdir may give, here the descending one
collect_multipart_archive_unsorted(f, file_path) ==
    IF ~multipart_base(Name(file_path)).ok THEN [ok |-> FALSE, parts |-> <<>>]
    ELSE [ok |-> TRUE, parts |-> Reverse(SortPaths(collect_matches(f, file_path)))]

\* UnzipService._collect_multipart_archive: [ok, parts], parts sorted
collect_multipart_archive(f, file_path) ==
    IF ~multipart_base(Name(file_path)).ok THEN [ok |-> FALSE, parts |-> <<>>]
    ELSE [ok |-> TRUE, parts |-> SortPaths(collect_matches(f, file_path))]

(***************************************************************************)
(* ArchiveInfo and extract_archive                                         *)
(***************************************************************************)

ArchiveInfo(path, type, parts) == [path |-> path, type |-> type, parts |-> parts]

\* the files read into the output, in this order: [ok, files, bytes]; ok = FALSE when
\* one of them cannot be opened
merge_in_order(f, files) ==
    [ok    |-> \A i \in 1..Len(files) : IsFile(f, files[i]),
     files |-> files,
     bytes |-> [i \in 1..Len(files) |->
                    IF IsFile(f, files[i]) THEN BlobAt(f, files[i]) ELSE DIR]]

\* a slip: the parts read in the order given, not sorted
merge_files_unsorted(f, file_list) == merge_in_order(f, file_list)

\* FileHelper.merge_files: the parts read in sorted order
merge_files(f, file_list) == merge_in_order(f, SortPaths(Range(file_list)))

\* a slip: the merged file never removed
cleanup_merged_missing(f, mp) == f

\* the finally clause of extract_archive: the merged file removed if it exists
cleanup_merged(f, mp) == IF Exists(f, mp) THEN Unlink(f, mp) ELSE f

\* merged_path = output_dir / f"merged{archive_info.path.suffix}"
merged_path(archive, output_dir) == output_dir \o <<"merged" \o Suffix(Name(archive.path))>>

\* the file the direct attempt is made on
direct_path(archive) == IF Len(archive.parts) > 1 THEN archive.parts[1] ELSE archive.path

\* the codec's direct attempt on that file
DirectOk(f, archive) ==
    /\ IsFile(f, direct_path(archive))
    /\ CodecOk(BlobAt(f, direct_path(archive)), archive.type)

\* ArchiveHandler.extract_archive as one call: [ok, fs]; ok = FALSE: it raised
extract_archive(f, archive, output_dir) ==
    LET f0 == IF Exists(f, output_dir) THEN f ELSE make_directory(f, output_dir)
        m  == merge_files(f0, archive.parts)
        mp == merged_path(archive, output_dir)
        f1 == WriteFile(f0, mp, "merged")
    IN  IF archive.type \notin {SEVEN_ZIP, ZIP, RAR} THEN [ok |-> TRUE, fs |-> f0]
        ELSE IF DirectOk(f0, archive)
             THEN [ok |-> TRUE,
                   fs |-> WriteAll(f0, output_dir, Entries(BlobAt(f0, direct_path(archive))))]
        ELSE IF Len(archive.parts) <= 1 THEN [ok |-> FALSE, fs |-> f0]
        ELSE IF m.ok /\ MergedOk(m.bytes, archive.type)
             THEN [ok |-> TRUE,
                   fs |-> cleanup_merged(WriteAll(f1, output_dir, MergedEntries(m.bytes)), mp)]
        ELSE [ok |-> FALSE, fs |-> cleanup_merged(f1, mp)]

(***************************************************************************)
(* The service's helpers                                                   *)
(***************************************************************************)

\* the per-item staging directories: temp1 (inbound) and temp3 (outbound)
temp1_of(id) == unzip_temp_dir \o <<generate_folder_name(id)>>

temp3_of(id) == target_temp_dir \o <<generate_folder_name(id)>>

\* base_name = file_path.stem.split('.')[0]
base_name_of(file_path) == SplitFirst(Stem(Name(file_path)), ".")

RECURSIVE prepare_from(_, _, _)
\* the loop of _prepare_archive_info over the sorted files; archives: the dict, a
\* sequence of [base, info] in insertion order
prepare_from(f, files, archives) ==
    IF files = <<>> THEN archives
    ELSE LET file_path == Head(files)
             base_name == base_name_of(file_path)
             known     == {i \in 1..Len(archives) : archives[i].base = base_name}
             type      == detect_archive_type(f, file_path)
         IN  IF known = {}
             THEN IF type # UNKNOWN
                  THEN prepare_from(f, Tail(files),
                           Append(archives, [base |-> base_name,
                                             info |-> ArchiveInfo(file_path, type, <<file_path>>)]))
                  ELSE prepare_from(f, Tail(files), archives)
             ELSE LET i == CHOOSE k \in known : TRUE
                  IN  prepare_from(f, Tail(files),
                          [archives EXCEPT ![i].info.parts = Append(@, file_path)])

\* UnzipService._prepare_archive_info: the ArchiveInfo values, in dict order
prepare_archive_info(f, files) ==
    LET archives == prepare_from(f, SortPaths(files), <<>>)
    IN  [i \in 1..Len(archives) |-> archives[i].info]

RECURSIVE copy_parts(_, _, _)
\* the copy loop of _extract_to_target_temp: shutil.copy2(part, temp_path), a failure
\* to copy logged and skipped
copy_parts(f, parts, temp_path) ==
    IF parts = <<>> THEN f
    ELSE LET part == Head(parts)
         IN  IF is_multipart_archive(Name(part)) \/ ~IsFile(f, part)
             THEN copy_parts(f, Tail(parts), temp_path)
             ELSE copy_parts(WriteFile(f, temp_path \o <<Name(part)>>, BlobAt(f, part)),
                             Tail(parts), temp_path)

\* a slip: the parts of an extracted unit unlinked, as the recursive loop does
\* with the parts it finds in inbound staging
extract_to_target_temp_consuming(f, archive, temp_path) ==
    LET r == extract_archive(f, archive, temp_path)
    IN  IF archive.type # UNKNOWN
        THEN [ok |-> r.ok, fs |-> {n \in r.fs : r.ok => n.path \notin Range(archive.parts)}]
        ELSE [ok |-> TRUE, fs |-> copy_parts(f, archive.parts, temp_path)]

\* UnzipService._extract_to_target_temp: [ok, fs]
extract_to_target_temp(f, archive, temp_path) ==
    IF archive.type # UNKNOWN
    THEN extract_archive(f, archive, temp_path)
    ELSE [ok |-> TRUE, fs |-> copy_parts(f, archive.parts, temp_path)]

\* the test of _move_archives_to_zip_temp: a recognized archive or a multi-part name
is_archive_like(f, file_path) ==
    detect_archive_type(f, file_path) # UNKNOWN \/ is_multipart_archive(Name(file_path))

\* the body of the loop of _move_archives_to_zip_temp for one file
move_one_archive(f, temp_path, id, file_path) ==
    LET rel_path    == RelativeTo(file_path, temp_path)
        dst_path    == temp1_of(id) \o Parent(rel_path)
        f1          == IF Exists(f, dst_path) THEN RmTree(f, dst_path) ELSE f
        f2          == MkDirs(f1, dst_path)
        target_file == dst_path \o <<Name(file_path)>>
        f3          == IF Exists(f2, target_file) THEN RmTree(f2, target_file) ELSE f2
    IN  IF is_archive_like(f, file_path) THEN Move(f3, file_path, target_file) ELSE f

RECURSIVE move_archives_from(_, _, _, _)
\* the loop over the file list, which rglob yields in an order the code does not
\* fix: every file system one of the orders ends in
move_archives_from(f, temp_path, id, files) ==
    IF files = {} THEN {f}
    ELSE UNION {move_archives_from(move_one_archive(f, temp_path, id, file_path),
                                   temp_path, id, files \ {file_path}) : file_path \in files}

\* UnzipService._move_archives_to_zip_temp: the file systems it may end in
move_archives_to_zip_temp(f, temp_path, id) ==
    move_archives_from(f, temp_path, id, get_file_list(f, temp_path))

\* the target of one entry of the outbound tree in _move_to_target
target_item_of(dst_path, temp3_path, item, skip_levels) ==
    LET parts == RelativeTo(item, temp3_path)
    IN  IF skip_levels > 0
        THEN IF Len(parts) > skip_levels
             THEN dst_path \o SubSeq(parts, skip_levels + 1, Len(parts))
             ELSE dst_path \o <<Name(item)>>
        ELSE dst_path \o parts

\* dst_path of _move_to_target
dst_path_of(id, skip_levels) ==
    IF skip_levels > 0 THEN target_dir ELSE target_dir \o <<generate_folder_name(id)>>

\* UnzipHistoryDao.query_history_by_id and query_history_by_src_path (find_one)
query_history_by_id(hist, id) == \E i \in 1..Len(hist) : hist[i].id = id

query_history_by_src_path(hist, src_path) == \E i \in 1..Len(hist) : hist[i].src_path = src_path

RECURSIVE collect_from(_, _, _, _, _)
\* the loop of _collect_archive_files over iterdir's order; ids: the two dicts, a
\* sequence of [id, item, files] in insertion order
collect_from(f, hist, vam, order, ids) ==
    IF order = <<>> THEN ids
    ELSE LET item  == Head(order)
             id    == get_path_id(f, item)
             files == IF IsFile(f, item) THEN {item} ELSE RGlob(f, item)
             known == {i \in 1..Len(ids) : ids[i].id = id}
             entry == [id |-> id, item |-> item, files |-> files]
         IN  IF (query_history_by_src_path(hist, item) \/ query_history_by_id(hist, id))
                  /\ is_all_processed(f, vam, id)
             THEN collect_from(f, hist, vam, Tail(order), ids)
             ELSE IF known = {}
                  THEN collect_from(f, hist, vam, Tail(order), Append(ids, entry))
                  ELSE collect_from(f, hist, vam, Tail(order),
                           [ids EXCEPT ![CHOOSE k \in known : TRUE] = entry])

\* a slip: the ledger never consulted
collect_archive_files_no_ledger(f, hist, vam, order) == collect_from(f, <<>>, vam, order, <<>>)

\* UnzipService._collect_archive_files
collect_archive_files(f, hist, vam, order) == collect_from(f, hist, vam, order, <<>>)

\* the orders a directory listing may come in
Orders(S) == {o \in [1..Cardinality(S) -> S] : \A i, j \in 1..Cardinality(S) : o[i] = o[j] => i = j}

(***************************************************************************)
(* The state                                                               *)
(***************************************************************************)

VARIABLES
    fs,            \* the file system: source, temp1, temp3 and target
    history,       \* the UnzipHistory collection: a sequence of records
    cfg,           \* [skip: skip_parent_levels, vam: db_type = VAMVIDEO]
    pc,            \* where the run stands
    run,           \* the number of runs of process_archives started
    todo,          \* id_files / id_sources: the items still to process
    cur,           \* the item _process_single_id works on
    units,         \* the ArchiveInfo values still to stage
    flist,         \* the files of the current pass of the recursive loop still to visit
    has_archives,  \* has_archives of _process_unzip_temp_archives
    mlist,         \* the entries of the outbound tree _move_to_target has still to move
    trace,         \* what the run did, for the properties: see the fields below
    ea,            \* one call of extract_archive, taken step by step
    fc             \* one call of a function on its own: [pc, op, arg, result]

vars == <<fs, history, cfg, pc, run, todo, cur, units, flist, has_archives, mlist, trace, ea,
         fc>>

\* bounds of the model
MaxRuns == 2

MaxSkip == 2

MaxParts == 3

\* the top-level entries a source root is drawn from: each a set of nodes
SrcFile(name, b) == {Node(source_dir \o <<name>>, b)}

SrcDir(name, files) ==
    {Node(source_dir \o <<name>>, DIR)}
      \cup {Node(source_dir \o <<name>> \o n.path, n.blob) : n \in files}

E_A == SrcFile("A.zip", "zZip")

E_A1 == SrcFile("A_1.zip", "zTxt")

E_B == SrcFile("B.zip", "zHasBad")

E_C == SrcFile("C.zip", "zTwo")

E_G == SrcFile("G.zip", "zPart")

E_H == SrcFile("H.zip", "zOdd")

E_D == SrcDir("D", {Node(<<"a.zip">>, "zBad"), Node(<<"b.zip">>, "zTxt")})

E_E == SrcDir("E", {Node(<<"readme.txt">>, "txt"), Node(<<"e.zip">>, "zDeep")})

E_F == SrcDir("F", {Node(<<"x.7z.001">>, "s1"), Node(<<"x.7z.002">>, "s2")})

E_R == SrcFile("A.part001.rar", "q1") \cup SrcFile("A.part002.rar", "q2")

E_A2 == SrcFile("A_2.zip", "zDeep")

E_K == SrcFile("K.zip", "zDirOnly")

E_W == SrcFile("W.zip", "zWrap")

E_N == SrcDir("N", {Node(<<"m.one.zip">>, "zAlbum"), Node(<<"m.two.zip">>, "zTxt")})

E_P == SrcDir("P", {Node(<<"p.zip">>, "zTxt"), Node(<<"q.zip">>, "zAlbum")})

E_V == SrcDir("V", {Node(<<"v.part1.rar">>, "r1"), Node(<<"v.part2.rar">>, "r2"),
                    Node(<<"v.part10.rar">>, "r10")})

\* the source roots a run starts from
Sources ==
    { E_A, E_A1, E_B, E_C, E_G, E_H, E_D, E_E, E_F,
      E_A \cup E_A1, E_A \cup E_E, E_B \cup E_E, E_E \cup E_F, E_C \cup E_D,
      E_A \cup E_R, E_A \cup E_A2, E_K, E_N, E_P, E_V, E_W }

Roots == {Node(source_dir, DIR), Node(unzip_temp_dir, DIR), Node(target_temp_dir, DIR),
          Node(target_dir, DIR)}

NoItem == [id |-> "", item |-> <<>>, files |-> {}]

\* trace: last: the last step's outcome; prepared: the units (by path) of the
\* current item; extracted, failed: the archives (by path) of the current item whose
\* extraction succeeded, raised; finalized: the ids _move_to_target was called for in
\* this run; staged: the outbound files (relative) at the start of _move_to_target;
\* moved: the outbound entries _move_to_target has moved; relocate: the outbound files
\* (relative) the last _move_archives_to_zip_temp had to move; pass: the file system
\* at the start of the current pass of the recursive loop; skippable: at the start of
\* the run every source entry had a ledger record (and allproc: _is_all_processed
\* held for each of them); cleaned: cleanup ran after the run; tree: the outbound
\* tree (relative paths and contents) at the start of _move_to_target; stale: what
\* lay under the destination then; collected: the ids collected for the run; begun:
\* the ids taken up so far; raised: the ids whose _process_single_id raised;
\* ledger_failed: a ledger call of the run raised; handed: the last unit handed to
\* extract_archive; outputs: the files, under the target root, of the ids recorded
\* in this run
NoTrace ==
    [last |-> "", prepared |-> {}, extracted |-> {}, failed |-> {}, finalized |-> {},
     staged |-> {}, moved |-> {}, relocate |-> {}, pass |-> {}, skippable |-> FALSE,
     allproc |-> FALSE, cleaned |-> FALSE, tree |-> {}, stale |-> {},
     collected |-> {}, begun |-> {}, raised |-> {}, ledger_failed |-> FALSE,
     handed |-> ArchiveInfo(<<>>, UNKNOWN, <<>>), outputs |-> {}]

\* ea: pc; archive and out, the arguments; attempts: the codec calls made, each
\* [file, ok]; merged: what merge_files read into the merged file; created: the merged
\* file was opened for writing; error: an exception is on its way out
NoMerge == [ok |-> FALSE, files |-> <<>>, bytes |-> <<>>]

NoCall ==
    [pc |-> "off", archive |-> ArchiveInfo(<<>>, UNKNOWN, <<>>), out |-> <<>>,
     attempts |-> <<>>, merged |-> NoMerge, created |-> FALSE, error |-> FALSE]

\* no function called on its own
NoFc == [pc |-> "off", op |-> "", arg |-> <<>>, result |-> <<>>]

Init ==
    /\ \E S \in Sources : fs = Roots \cup S
    /\ cfg \in [skip : 0..MaxSkip, vam : BOOLEAN]
    /\ history = <<>>
    /\ pc = "idle"
    /\ run = 0
    /\ todo = <<>>
    /\ cur = NoItem
    /\ units = <<>>
    /\ flist = {}
    /\ has_archives = FALSE
    /\ mlist = {}
    /\ trace = NoTrace
    /\ ea = NoCall
    /\ fc = NoFc

(***************************************************************************)
(* process_archives                                                        *)
(***************************************************************************)

\* a slip: the handler around the whole loop, so that the items left are dropped
item_failed_abort(t) == <<>>

\* except Exception in the loop of process_archives: the exception of one id is
\* logged and the loop goes on with the ids that are left
item_failed(t) == t

\* process_archives up to its loop: the staging roots made anew, the items
\* collected; a history query that raises leaves process_archives, and main
\* goes to the next service without calling cleanup
Start ==
    /\ pc = "idle" /\ run < MaxRuns
    /\ \E order \in Orders(IterDir(fs, source_dir)), answered \in BOOLEAN :
          LET f1 == make_directory(make_directory(fs, unzip_temp_dir), target_temp_dir)
              recorded(item) ==
                  query_history_by_src_path(history, item)
                    \/ query_history_by_id(history, get_path_id(f1, item))
              ids == collect_archive_files(f1, history, cfg.vam, order)
          IN  /\ fs' = f1
              /\ IF answered \/ order = <<>>
                 THEN /\ todo' = ids
                      /\ pc' = "items"
                      /\ trace' = [NoTrace EXCEPT
                            !.last = "start",
                            !.skippable = \A item \in IterDir(f1, source_dir) : recorded(item),
                            !.allproc = \A item \in IterDir(f1, source_dir) :
                                            is_all_processed(f1, cfg.vam, get_path_id(f1, item)),
                            !.collected = {ids[i].id : i \in 1..Len(ids)}]
                 ELSE /\ todo' = <<>>
                      /\ pc' = "idle"
                      /\ trace' = [NoTrace EXCEPT !.last = "query_failed",
                                                  !.ledger_failed = TRUE]
    /\ run' = run + 1
    /\ cur' = NoItem
    /\ UNCHANGED <<history, cfg, fc, units, flist, has_archives, mlist, ea>>

\* the loop of process_archives takes the next id: _process_single_id prepares
\* its archives
NextItem ==
    /\ pc = "items" /\ todo # <<>>
    /\ cur' = Head(todo)
    /\ todo' = Tail(todo)
    /\ units' = prepare_archive_info(fs, Head(todo).files)
    /\ trace' = [trace EXCEPT !.last = "prepared",
                              !.prepared = {units'[i].path : i \in 1..Len(units')},
                              !.extracted = {}, !.failed = {}, !.staged = {},
                              !.moved = {}, !.relocate = {}, !.pass = {},
                              !.tree = {}, !.stale = {},
                              !.begun = @ \cup {Head(todo).id},
                              !.handed = NoTrace.handed]
    /\ pc' = "stage"
    /\ UNCHANGED <<fs, history, cfg, fc, run, flist, has_archives, mlist, ea>>

\* the loop of process_archives is over
RunDone ==
    /\ pc = "items" /\ todo = <<>>
    /\ pc' = "idle"
    /\ cur' = NoItem
    /\ trace' = [trace EXCEPT !.last = "ran"]
    /\ UNCHANGED <<fs, history, cfg, fc, run, todo, units, flist, has_archives, mlist, ea>>

\* the outbound files _move_archives_to_zip_temp has to move, relative
relocatable(f, temp_path) ==
    {RelativeTo(p, temp_path) : p \in {q \in get_file_list(f, temp_path) : is_archive_like(f, q)}}

\* one pass of the staging loop of _process_single_id: make_directory, extract,
\* move the archives to temp1; an exception leaves _process_single_id
StageUnit ==
    /\ pc = "stage" /\ units # <<>>
    /\ LET archive   == Head(units)
           temp_path == temp3_of(cur.id)
           r         == extract_to_target_temp(make_directory(fs, temp_path), archive, temp_path)
       IN  IF ~r.ok
           THEN /\ fs' = r.fs
                /\ pc' = "items"
                /\ units' = <<>>
                /\ todo' = item_failed(todo)
                /\ trace' = [trace EXCEPT !.last = "extract_failed",
                                          !.handed = archive,
                                          !.failed = @ \cup {archive.path},
                                          !.raised = @ \cup {cur.id}]
           ELSE /\ IF contains_files(r.fs, temp_path)
                   THEN fs' \in move_archives_to_zip_temp(r.fs, temp_path, cur.id)
                   ELSE fs' = r.fs
                /\ pc' = "stage"
                /\ units' = Tail(units)
                /\ UNCHANGED todo
                /\ trace' = [trace EXCEPT !.last = "relocated",
                                          !.handed = archive,
                                          !.extracted = @ \cup {archive.path},
                                          !.relocate = relocatable(r.fs, temp_path)]
    /\ UNCHANGED <<history, cfg, fc, run, cur, flist, has_archives, mlist, ea>>

\* the staging loop is over: _process_unzip_temp_archives is called
StageDone ==
    /\ pc = "stage" /\ units = <<>>
    /\ pc' = "scan"
    /\ trace' = [trace EXCEPT !.last = "staged"]
    /\ UNCHANGED <<fs, history, cfg, fc, run, todo, cur, units, flist, has_archives, mlist, ea>>

(***************************************************************************)
(* _process_unzip_temp_archives                                            *)
(***************************************************************************)

\* part.unlink() for every part of the unit
remove_parts(f, parts) == {n \in f : n.path \notin Range(parts)}

\* a slip: the parts removed before the outcome of the extraction is known
extract_and_remove_eager(f, archive, temp_path) ==
    LET r == extract_archive(f, archive, temp_path)
    IN  [ok |-> r.ok, fs |-> remove_parts(r.fs, archive.parts)]

\* the try block of _process_unzip_temp_archives up to the removal of the parts:
\* extract_archive, then every part unlinked; when extract_archive raises, the
\* except branch is taken and no part is touched: [ok, fs]
extract_and_remove(f, archive, temp_path) ==
    LET r == extract_archive(f, archive, temp_path)
    IN  IF r.ok THEN [ok |-> TRUE, fs |-> remove_parts(r.fs, archive.parts)] ELSE r

\* the head of the while loop: break when temp1 holds no file, else list its files
LoopScan ==
    /\ pc = "scan"
    /\ IF ~Exists(fs, temp1_of(cur.id)) \/ ~contains_files(fs, temp1_of(cur.id))
       THEN /\ pc' = "final"
            /\ flist' = {}
            /\ trace' = [trace EXCEPT !.last = "loop_done"]
       ELSE /\ pc' = "files"
            /\ flist' = get_file_list(fs, temp1_of(cur.id))
            /\ trace' = [trace EXCEPT !.last = "scanned", !.pass = fs]
    /\ has_archives' = FALSE
    /\ UNCHANGED <<fs, history, cfg, fc, run, todo, cur, units, mlist, ea>>

\* the body of the for loop for one file of the list
LoopFile ==
    /\ pc = "files"
    /\ \E file_path \in flist :
          LET archive_type == detect_archive_type(fs, file_path)
              multi        == is_multipart_archive(Name(file_path))
              c            == collect_multipart_archive(fs, file_path)
              archive      == ArchiveInfo(file_path, archive_type,
                                          IF multi THEN c.parts ELSE <<file_path>>)
              temp_path    == temp3_of(cur.id)
              r            == extract_and_remove(MkDirs(fs, temp_path), archive, temp_path)
          IN  /\ flist' = flist \ {file_path}
              /\ IF archive_type = UNKNOWN
                 THEN UNCHANGED <<fs, has_archives, pc, todo, trace>>
                 ELSE IF multi /\ ~c.ok
                 THEN \* _collect_multipart_archive raised, outside the try
                      /\ pc' = "items"
                      /\ todo' = item_failed(todo)
                      /\ has_archives' = TRUE
                      /\ trace' = [trace EXCEPT !.last = "collect_failed",
                                                !.failed = @ \cup {file_path},
                                                !.raised = @ \cup {cur.id}]
                      /\ UNCHANGED fs
                 ELSE IF ~r.ok
                 THEN \* the except branch: logged, continue
                      /\ fs' = r.fs
                      /\ has_archives' = TRUE
                      /\ trace' = [trace EXCEPT !.last = "nested_failed",
                                                !.handed = archive,
                                                !.failed = @ \cup {file_path}]
                      /\ UNCHANGED <<pc, todo>>
                 ELSE /\ fs' \in move_archives_to_zip_temp(r.fs, temp_path, cur.id)
                      /\ has_archives' = TRUE
                      /\ trace' = [trace EXCEPT !.last = "nested_relocated",
                                                !.handed = archive,
                                                !.extracted = @ \cup {file_path},
                                                !.relocate = relocatable(r.fs, temp_path)]
                      /\ UNCHANGED <<pc, todo>>
    /\ UNCHANGED <<history, cfg, fc, run, cur, units, mlist, ea>>

\* the end of the for loop: break if no archive was found in this pass
LoopEnd ==
    /\ pc = "files" /\ flist = {}
    /\ pc' = IF has_archives THEN "scan" ELSE "final"
    /\ trace' = [trace EXCEPT !.last = IF has_archives THEN "again" ELSE "loop_done"]
    /\ UNCHANGED <<fs, history, cfg, fc, run, todo, cur, units, flist, has_archives, mlist, ea>>

(***************************************************************************)
(* _move_to_target                                                         *)
(***************************************************************************)

\* what lies under d: relative paths and contents
TreeUnder(f, d) ==
    {Node(RelativeTo(n.path, d), n.blob) : n \in {m \in f : IsPrefix(d, m.path) /\ m.path # d}}

\* a slip: the destination left as it is
clear_destination_missing(f, dst_path) == f

\* the destination of _move_to_target removed, with all it holds, if it exists
clear_destination(f, dst_path) == IF Exists(f, dst_path) THEN RmTree(f, dst_path) ELSE f

\* _move_to_target up to its loop: return when temp3 holds no file; else the
\* destination removed and made again
FinalStart ==
    /\ pc = "final"
    /\ LET temp3_path == temp3_of(cur.id)
           dst_path   == dst_path_of(cur.id, cfg.skip)
           f1         == clear_destination(fs, dst_path)
       IN  IF ~contains_files(fs, temp3_path)
           THEN /\ pc' = "items"
                /\ mlist' = {}
                /\ trace' = [trace EXCEPT !.last = "nothing_to_move",
                                          !.finalized = @ \cup {cur.id}]
                /\ UNCHANGED fs
           ELSE /\ pc' = "move"
                /\ fs' = MkDirs(f1, dst_path)
                /\ mlist' = IterDir(fs, temp3_path)
                /\ trace' = [trace EXCEPT
                      !.last = "moving",
                      !.finalized = @ \cup {cur.id},
                      !.moved = {},
                      !.staged = {RelativeTo(q, temp3_path) : q \in get_file_list(fs, temp3_path)},
                      !.tree = TreeUnder(fs, temp3_path),
                      !.stale = TreeUnder(fs, dst_path)]
    /\ UNCHANGED <<history, cfg, fc, run, todo, cur, units, flist, has_archives, ea>>

\* a slip: the exception of a move logged and not raised again
FinalMove_swallow ==
    /\ pc = "move"
    /\ \E item \in mlist, moved \in BOOLEAN :
          LET target_item == target_item_of(dst_path_of(cur.id, cfg.skip), temp3_of(cur.id),
                                            item, cfg.skip)
          IN  /\ fs' = IF moved THEN Move(MkDirs(fs, Parent(target_item)), item, target_item)
                        ELSE fs
              /\ mlist' = mlist \ {item}
              /\ trace' = [trace EXCEPT !.last = "moved",
                                        !.moved = IF moved THEN @ \cup {item} ELSE @]
    /\ UNCHANGED <<history, cfg, fc, pc, run, todo, cur, units, flist, has_archives, ea>>

\* the body of the loop of _move_to_target for one entry; a move that raises is
\* raised again and leaves _process_single_id
FinalMove ==
    /\ pc = "move"
    /\ \E item \in mlist, moved \in BOOLEAN :
          LET temp3_path  == temp3_of(cur.id)
              dst_path    == dst_path_of(cur.id, cfg.skip)
              target_item == target_item_of(dst_path, temp3_path, item, cfg.skip)
              f1          == IF Exists(fs, target_item) THEN RmTree(fs, target_item) ELSE fs
              f2          == MkDirs(f1, Parent(target_item))
          IN  IF moved /\ ~IsFile(fs, target_item)
              THEN /\ fs' = Move(f2, item, target_item)
                   /\ mlist' = mlist \ {item}
                   /\ trace' = [trace EXCEPT !.last = "moved", !.moved = @ \cup {item}]
                   /\ UNCHANGED <<pc, todo>>
              ELSE /\ fs' = IF IsFile(fs, target_item) THEN fs ELSE f2
                   /\ mlist' = {}
                   /\ pc' = "items"
                   /\ todo' = item_failed(todo)
                   /\ trace' = [trace EXCEPT !.last = "move_failed",
                                             !.raised = @ \cup {cur.id}]
    /\ UNCHANGED <<history, cfg, fc, run, cur, units, flist, has_archives, ea>>

\* after the loop: save_history; when it raises, the exception leaves
\* _process_single_id and is handled in the loop of process_archives
FinalSave ==
    /\ pc = "move" /\ mlist = {}
    /\ \E saved \in BOOLEAN :
          IF saved
          THEN /\ history' = Append(history, [id |-> cur.id, src_path |-> cur.item,
                                              dst_path |-> dst_path_of(cur.id, cfg.skip),
                                              date |-> run])
               /\ trace' = [trace EXCEPT
                     !.last = "saved",
                     !.outputs = @ \cup {Node(dst_path_of(cur.id, cfg.skip) \o n.path, n.blob) :
                                            n \in {m \in trace.tree : m.blob # DIR}}]
               /\ UNCHANGED todo
          ELSE /\ todo' = item_failed(todo)
               /\ trace' = [trace EXCEPT !.last = "save_failed",
                                         !.raised = @ \cup {cur.id},
                                         !.ledger_failed = TRUE]
               /\ UNCHANGED history
    /\ pc' = "items"
    /\ UNCHANGED <<fs, cfg, fc, run, cur, units, flist, has_archives, mlist, ea>>

(***************************************************************************)
(* cleanup                                                                 *)
(***************************************************************************)

\* UnzipService.cleanup, which main calls after process_archives
Cleanup ==
    /\ pc = "idle" /\ run >= 1 /\ ~trace.cleaned /\ trace.last = "ran"
    /\ LET processed == {item \in IterDir(fs, source_dir) :
                            /\ query_history_by_id(history, get_path_id(fs, item))
                            /\ is_all_processed(fs, cfg.vam, get_path_id(fs, item))}
           f1        == {n \in fs : \A item \in processed : ~IsPrefix(item, n.path)}
           invalid   == {item \in IterDir(f1, target_dir) :
                            ~Contains(Name(item), "[") /\ ~Contains(Name(item), "]")}
       IN  fs' = {n \in f1 : \A item \in invalid : ~IsPrefix(item, n.path)}
    /\ trace' = [trace EXCEPT !.last = "cleaned", !.cleaned = TRUE]
    /\ UNCHANGED <<history, cfg, fc, pc, run, todo, cur, units, flist, has_archives, mlist, ea>>

Next ==
    \/ Start
    \/ NextItem
    \/ RunDone
    \/ StageUnit
    \/ StageDone
    \/ LoopScan
    \/ LoopFile
    \/ LoopEnd
    \/ FinalStart
    \/ FinalMove
    \/ FinalSave
    \/ Cleanup

Spec == Init /\ [][Next]_vars

(***************************************************************************)
(* extract_archive, step by step                                           *)
(***************************************************************************)

in_dir == <<"in">>

out_dir == <<"out">>

\* the files the fragments of a call are drawn from
InFiles ==
    { Node(in_dir \o <<"x.7z.001">>, "s1"), Node(in_dir \o <<"x.7z.002">>, "s2"),
      Node(in_dir \o <<"y.zip.001">>, "t1"), Node(in_dir \o <<"y.zip.002">>, "t2"),
      Node(in_dir \o <<"y.zip.003">>, "t3"),
      Node(in_dir \o <<"v.part1.rar">>, "r1"), Node(in_dir \o <<"v.part2.rar">>, "r2"),
      Node(in_dir \o <<"v.part10.rar">>, "r10"),
      Node(in_dir \o <<"a.zip">>, "zTxt"), Node(in_dir \o <<"b.zip">>, "zBad") }

\* the fragment lists: one to MaxParts different files, in any order
PartLists ==
    UNION {{o \in [1..k -> {n.path : n \in InFiles}] :
               \A i, j \in 1..k : o[i] = o[j] => i = j} : k \in 1..MaxParts}

ExtractInit ==
    /\ \E out_exists \in BOOLEAN :
          fs = {Node(in_dir, DIR)} \cup InFiles
                 \cup (IF out_exists THEN {Node(out_dir, DIR)} ELSE {})
    /\ \E parts \in PartLists : \E path \in Range(parts) :
          ea = [NoCall EXCEPT
                  !.pc = "call",
                  !.archive = ArchiveInfo(path, detect_archive_type(InFiles, path), parts),
                  !.out = out_dir]
    /\ cfg = [skip |-> 0, vam |-> FALSE]
    /\ history = <<>>
    /\ pc = "off"
    /\ run = 0
    /\ todo = <<>>
    /\ cur = NoItem
    /\ units = <<>>
    /\ flist = {}
    /\ has_archives = FALSE
    /\ mlist = {}
    /\ trace = NoTrace
    /\ fc = NoFc

\* the head of extract_archive: the output directory made if absent; an unsupported
\* type logged and the call returned
EaCall ==
    /\ ea.pc = "call"
    /\ fs' = IF Exists(fs, ea.out) THEN fs ELSE make_directory(fs, ea.out)
    /\ ea' = [ea EXCEPT !.pc = IF ea.archive.type \in {SEVEN_ZIP, ZIP, RAR}
                                THEN "direct" ELSE "returned"]
    /\ UNCHANGED <<history, cfg, fc, pc, run, todo, cur, units, flist, has_archives, mlist, trace>>

\* a slip: the fallback tried whatever the number of parts
after_direct_failure_always_merge(archive) == "merge"

\* the except clause of the first try: raise for one part, else go on to the merge
after_direct_failure(archive) == IF Len(archive.parts) <= 1 THEN "raised" ELSE "merge"

\* the first try: the codec on parts[0] (on path for one part); io: what the codec
\* meets beyond the bytes (password, destination)
EaDirect ==
    /\ ea.pc = "direct"
    /\ \E io \in BOOLEAN :
          LET ok == io /\ DirectOk(fs, ea.archive)
          IN  /\ fs' = IF ok
                       THEN WriteAll(fs, ea.out, Entries(BlobAt(fs, direct_path(ea.archive))))
                       ELSE fs
              /\ ea' = [ea EXCEPT
                          !.attempts = Append(@, [file |-> direct_path(ea.archive), ok |-> ok]),
                          !.pc = IF ok THEN "returned" ELSE after_direct_failure(ea.archive),
                          !.error = ~ok]
    /\ UNCHANGED <<history, cfg, fc, pc, run, todo, cur, units, flist, has_archives, mlist, trace>>

\* the second try, first half: merge_files into merged_path; the open of the output
\* or a read of a part may fail
EaMerge ==
    /\ ea.pc = "merge"
    /\ \E io \in {"ok", "open_failed", "read_failed"} :
          LET m  == merge_files(fs, ea.archive.parts)
              mp == merged_path(ea.archive, ea.out)
          IN  IF io = "open_failed"
              THEN /\ ea' = [ea EXCEPT !.pc = "finally", !.error = TRUE]
                   /\ UNCHANGED fs
              ELSE /\ fs' = WriteFile(fs, mp, "merged")
                   /\ ea' = [ea EXCEPT
                               !.created = TRUE,
                               !.merged = IF io = "ok" /\ m.ok THEN m ELSE NoMerge,
                               !.error = ~(io = "ok" /\ m.ok),
                               !.pc = IF io = "ok" /\ m.ok THEN "retry" ELSE "finally"]
    /\ UNCHANGED <<history, cfg, fc, pc, run, todo, cur, units, flist, has_archives, mlist, trace>>

\* the second try, second half: the codec on the merged file
EaRetry ==
    /\ ea.pc = "retry"
    /\ \E io \in BOOLEAN :
          LET ok == io /\ MergedOk(ea.merged.bytes, ea.archive.type)
          IN  /\ fs' = IF ok THEN WriteAll(fs, ea.out, MergedEntries(ea.merged.bytes)) ELSE fs
              /\ ea' = [ea EXCEPT
                          !.attempts = Append(@, [file |-> merged_path(ea.archive, ea.out),
                                                  ok |-> ok]),
                          !.error = ~ok,
                          !.pc = "finally"]
    /\ UNCHANGED <<history, cfg, fc, pc, run, todo, cur, units, flist, has_archives, mlist, trace>>

\* the finally clause, then the return or the raise
EaFinally ==
    /\ ea.pc = "finally"
    /\ fs' = cleanup_merged(fs, merged_path(ea.archive, ea.out))
    /\ ea' = [ea EXCEPT !.pc = IF ea.error THEN "raised" ELSE "returned"]
    /\ UNCHANGED <<history, cfg, fc, pc, run, todo, cur, units, flist, has_archives, mlist, trace>>

ExtractNext == EaCall \/ EaDirect \/ EaMerge \/ EaRetry \/ EaFinally

SpecExtract == ExtractInit /\ [][ExtractNext]_vars

(***************************************************************************)
(* _collect_multipart_archive on its own                                   *)
(***************************************************************************)

MaxFrag == 3

coll_dir == <<"dir">>

\* the name of part k of a dotted set: stem, then k on three digits (k < 10)
PartName(stem, k) == stem \o "00" \o CharAt(Digits, k + 1)

\* the names the directory is filled from
CollectPool ==
    {PartName("m.7z.", k) : k \in 1..MaxFrag}
        \cup {PartName("n.zip.", k) : k \in 1..2}
        \cup {"movie.part1.rar", "a.zip", "notes.txt"}

\* a subdirectory holding a file named like a part of the set m
CollectSub ==
    {Node(coll_dir \o <<"sub">>, DIR), Node(coll_dir \o <<"sub", PartName("m.7z.", 1)>>, "s1")}

CollectInit ==
    /\ \E S \in SUBSET CollectPool : \E sub \in {{}, CollectSub} :
          /\ S # {}
          /\ fs = {Node(coll_dir, DIR)} \cup {Node(coll_dir \o <<n>>, "s1") : n \in S} \cup sub
    /\ fc = [NoFc EXCEPT !.pc = "ready", !.op = "collect"]
    /\ ea = NoCall
    /\ cfg = [skip |-> 0, vam |-> FALSE]
    /\ history = <<>>
    /\ pc = "off"
    /\ run = 0
    /\ todo = <<>>
    /\ cur = NoItem
    /\ units = <<>>
    /\ flist = {}
    /\ has_archives = FALSE
    /\ mlist = {}
    /\ trace = NoTrace

\* _collect_multipart_archive called on a file of the directory
CollectCall ==
    /\ fc.pc = "ready" /\ fc.op = "collect"
    /\ \E file_path \in {g \in IterDir(fs, coll_dir) : IsFile(fs, g)} :
          fc' = [fc EXCEPT !.pc = "done", !.arg = file_path,
                           !.result = collect_multipart_archive(fs, file_path)]
    /\ UNCHANGED <<fs, history, cfg, pc, run, todo, cur, units, flist, has_archives, mlist,
                   trace, ea>>

CollectNext == CollectCall

SpecCollect == CollectInit /\ [][CollectNext]_vars

(***************************************************************************)
(* detect_archive_type on its own                                          *)
(***************************************************************************)

MaxCalls == 2

det_dir == <<"det">>

\* how the files start: nothing, a magic sequence whole or cut short, something else
Heads ==
    {"", "37", "377abcaf27", SEVEN_ZIP_HEADER, "50", ZIP_HEADER, "5261", RAR_HEADER,
     "68656c6c"}

\* twenty bytes
Filler == "000102030405060708090a0b0c0d0e0f10111213"

\* how the files go on
Tails == {"", Filler \o "aabb", Filler \o "ffee"}

\* the paths detect_archive_type is called on: two files, a directory, nothing
DetectTargets(f) ==
    IterDir(f, det_dir) \cup {det_dir \o <<"missing.zip">>}

DetectInit ==
    /\ \E h1 \in Heads : \E t1, t2 \in Tails : \E h2 \in {h1, "50", "68656c6c"} :
          fs = {Node(det_dir, DIR), Node(det_dir \o <<"sub.zip">>, DIR),
                Node(det_dir \o <<"d.txt">>, RAW \o h1 \o t1),
                Node(det_dir \o <<"b.7z">>, RAW \o h2 \o t2)}
    /\ fc = [NoFc EXCEPT !.pc = "ready", !.op = "detect"]
    /\ ea = NoCall
    /\ cfg = [skip |-> 0, vam |-> FALSE]
    /\ history = <<>>
    /\ pc = "off"
    /\ run = 0
    /\ todo = <<>>
    /\ cur = NoItem
    /\ units = <<>>
    /\ flist = {}
    /\ has_archives = FALSE
    /\ mlist = {}
    /\ trace = NoTrace

\* one call of detect_archive_type: its argument, whether the read was let through,
\* its outcome, and the file system it left
DetectCall ==
    /\ fc.pc = "ready" /\ fc.op = "detect" /\ Len(fc.result) < MaxCalls
    /\ \E p \in DetectTargets(fs) : \E io \in {"ok", "denied"} :
          fc' = [fc EXCEPT !.result = Append(@, [path |-> p, io |-> io,
                                                 type |-> detect_call(fs, p, io),
                                                 after |-> fs])]
    /\ UNCHANGED <<fs, history, cfg, pc, run, todo, cur, units, flist, has_archives, mlist,
                   trace, ea>>

DetectNext == DetectCall

SpecDetect == DetectInit /\ [][DetectNext]_vars

(***************************************************************************)
(* The properties                                                          *)
(***************************************************************************)

\* the records save_history wrote in this run
SavedNow == {i \in 1..Len(history) : history[i].date = run}

\* C1: the recursive loop terminates, also when the extraction of an archive of
\* inbound staging fails: no pass of the loop that found an archive ends with the
\* file system it started from (the next pass would repeat it, and so on for ever)
C1_LoopTerminates == ~(pc = "scan" /\ trace.last = "again" /\ fs = trace.pass)

\* C2: a failure of one unit of an item never aborts the siblings: when the item is
\* over, every other unit prepared for it was extracted and _move_to_target was
\* called for it
C2_SiblingsSurvive ==
    (pc = "items" /\ trace.failed # {}) =>
        /\ (trace.prepared \ trace.failed) \subseteq trace.extracted
        /\ cur.id \in trace.finalized

\* C3: a record is written only after every entry of the outbound tree was moved;
\* a move that raises aborts the item without a record and without rolling back
\* what was moved; at most one record per id and run
C3_HistoryAfterRelocation ==
    /\ \A i \in SavedNow : IterDir(fs, temp3_of(history[i].id)) = {}
    /\ \A i, j \in 1..Len(history) :
          (history[i].id = history[j].id /\ history[i].date = history[j].date) => i = j
    /\ trace.last = "move_failed" =>
          /\ \A i \in SavedNow : history[i].id # cur.id
          /\ \A item \in trace.moved :
                /\ ~Exists(fs, item)
                /\ Exists(fs, target_item_of(dst_path_of(cur.id, cfg.skip), temp3_of(cur.id),
                                             item, cfg.skip))

\* C3, reached: a move raised after another entry had been moved
C3_Witness == trace.last = "move_failed" /\ trace.moved # {}

\* what a run in which every source entry is skipped looks like: nothing processed,
\* nothing written
NothingDone == SavedNow = {} /\ pc \in {"items", "idle"} /\ cur = NoItem /\ trace.finalized = {}

C5_StripsLeadingSegments ==
    trace.last = "saved" =>
        \A r \in trace.staged :
            IF cfg.skip = 0
            THEN IsFile(fs, target_dir \o <<generate_folder_name(cur.id)>> \o r)
            ELSE Len(r) > cfg.skip =>
                     IsFile(fs, target_dir \o SubSeq(r, cfg.skip + 1, Len(r)))

\* C6: after _move_archives_to_zip_temp every outbound file that was a recognized
\* archive or had a multi-part name is in inbound staging at the same relative path,
\* and none is left in outbound staging
C6_RelocatedToInbound ==
    trace.last \in {"relocated", "nested_relocated"} =>
        \A r \in trace.relocate :
            /\ IsFile(fs, temp1_of(cur.id) \o r)
            /\ ~Exists(fs, temp3_of(cur.id) \o r)

\* a blob that is no archive by its header
PlainBlob(b) == b # DIR /\ TypeOfHeader(Bytes(b)) = UNKNOWN

RECURSIVE LinearChain(_)
\* an archive holding one entry, a plain file or again such an archive
LinearChain(b) ==
    /\ Complete(b)
    /\ Cardinality(Entries(b)) = 1
    /\ LET e == CHOOSE n \in Entries(b) : TRUE
       IN  PlainBlob(e.blob) \/ LinearChain(e.blob)

RECURSIVE InnermostFile(_)
InnermostFile(b) ==
    LET e == CHOOSE n \in Entries(b) : TRUE
    IN  IF PlainBlob(e.blob) THEN e.path ELSE InnermostFile(e.blob)

\* C7: for a linearly nested archive, when the recursive loop has returned, inbound
\* staging holds no recognized archive and the innermost plain file is in outbound
\* staging
C7_NestedFullyExtracted ==
    (pc = "final" /\ IsFile(fs, cur.item) /\ LinearChain(BlobAt(fs, cur.item))) =>
        /\ \A q \in get_file_list(fs, temp1_of(cur.id)) : detect_archive_type(fs, q) = UNKNOWN
        /\ IsFile(fs, temp3_of(cur.id) \o InnermostFile(BlobAt(fs, cur.item)))

\* a member file of the current item that is no archive by its header
PlainMember(q) == q \in cur.files /\ IsFile(fs, q) /\ detect_archive_type(fs, q) = UNKNOWN

\* C8: a group whose first file is Unknown becomes a unit of format Unknown, and
\* every plain member file whose name is no multi-part name is copied to outbound
\* staging
C8_PlainMembersStaged ==
    /\ (pc = "stage" /\ trace.last = "prepared") =>
          \A q \in cur.files :
              (/\ PlainMember(q)
               /\ \A o \in cur.files : base_name_of(o) = base_name_of(q) => ~PathLess(o, q))
                 => \E i \in 1..Len(units) : units[i].type = UNKNOWN /\ units[i].path = q
    /\ trace.last = "staged" =>
          \A q \in cur.files :
              (PlainMember(q) /\ ~is_multipart_archive(Name(q)))
                 => IsFile(fs, temp3_of(cur.id) \o <<Name(q)>>)

\* the call of extract_archive is over
EaOver == ea.pc \in {"returned", "raised"}

\* the name is of the form <base>.partN.rar
IsRarPart(name) ==
    LET l == Lower(name)
        i == Index(l, ".part")
    IN  /\ EndsWith(l, ".rar") /\ i > 0 /\ i + 5 <= Len(l) - 4
        /\ \A k \in (i + 5)..(Len(l) - 4) : IsDigit(CharAt(l, k))

\* the name is a numbered part: <base>.7z.NNN, <base>.zip.NNN or <base>.partN.rar
IsNumberedPart(name) ==
    \/ EndsWithPart(Lower(name), ".7z.")
    \/ EndsWithPart(Lower(name), ".zip.")
    \/ IsRarPart(name)

\* the number a string of digits writes
RECURSIVE DigitsVal(_)
DigitsVal(d) ==
    IF d = "" THEN 0
    ELSE 10 * DigitsVal(SubSeq(d, 1, Len(d) - 1)) + DigitVal(CharAt(d, Len(d)))

\* the part number of a numbered part
PartNumber(name) ==
    LET l == Lower(name)
    IN  IF IsRarPart(name)
        THEN DigitsVal(SubSeq(l, Index(l, ".part") + 5, Len(l) - 4))
        ELSE DigitsVal(SubSeq(l, Len(l) - PART_DIGITS + 1, Len(l)))

\* the name of a numbered part up to its number
PartStem(name) ==
    LET l == Lower(name)
    IN  IF IsRarPart(name) THEN SubSeq(l, 1, Index(l, ".part") + 4)
        ELSE SubSeq(l, 1, Len(l) - PART_DIGITS)

\* the files are the numbered parts of one archive: one directory, one name up to the
\* part number
PartsOfOne(files) ==
    \A i, j \in 1..Len(files) :
        /\ IsNumberedPart(Name(files[i]))
        /\ Parent(files[i]) = Parent(files[j])
        /\ PartStem(Name(files[i])) = PartStem(Name(files[j]))

\* the part numbers are written with one width (zero-padded)
OneWidth(files) == \A i, j \in 1..Len(files) : Len(Name(files[i])) = Len(Name(files[j]))

\* the files follow each other in ascending part number
AscendingParts(files) ==
    \A i, j \in 1..Len(files) :
        i < j => PartNumber(Name(files[i])) < PartNumber(Name(files[j]))

\* the files follow each other in ascending order of their paths, as sorted() has them
AscendingPaths(files) ==
    \A i, j \in 1..Len(files) : i < j => PathLess(files[i], files[j])

\* what C9 says but for the order of the merge: the first try on the first fragment
\* alone; the fragments, all of them, merged exactly when it fails and the codec tried
\* once more, on the merged file; a return when a try succeeded, a raise otherwise
MergeFallback(InOrder(_)) ==
    (EaOver /\ Len(ea.archive.parts) > 1 /\ ea.archive.type \in {SEVEN_ZIP, ZIP, RAR}) =>
        /\ Len(ea.attempts) \in {1, 2}
        /\ ea.attempts[1].file = ea.archive.parts[1]
        /\ ea.attempts[1].ok => (Len(ea.attempts) = 1 /\ ~ea.created /\ ea.merged.files = <<>>)
        /\ ~ea.attempts[1].ok => (ea.created \/ ea.error)
        /\ (~ea.attempts[1].ok /\ ea.merged.ok) =>
              /\ Range(ea.merged.files) = Range(ea.archive.parts)
              /\ Len(ea.merged.files) = Len(ea.archive.parts)
              /\ InOrder(ea.merged.files)
              /\ Len(ea.attempts) = 2
              /\ ea.attempts[2].file = merged_path(ea.archive, ea.out)
        /\ (ea.pc = "returned") <=> ea.attempts[Len(ea.attempts)].ok

\* the order C9 states: the numbered parts of one archive in ascending part number
InPartOrder(files) == PartsOfOne(files) => AscendingParts(files)

\* the order of sorted(): ascending paths, which is ascending part number for the parts
\* of one archive numbered with one width
InSortedOrder(files) ==
    /\ AscendingPaths(files)
    /\ (PartsOfOne(files) /\ OneWidth(files)) => AscendingParts(files)

\* C9: for more than one fragment of a supported format the first try is on the
\* first fragment alone; the fragments are merged, in ascending part order, exactly
\* when it fails, and the codec is tried once more, on the merged file; the call
\* returns when a try succeeded and raises otherwise
C9_MergeFallback == MergeFallback(InPartOrder)

\* C9 with the order merge_files keeps: the fragments merged in ascending order of
\* their paths, which is ascending part order when the part numbers are zero-padded
\* to one width
C9_MergeFallbackSorted == MergeFallback(InSortedOrder)

\* C9, reached: the first try failed on parts given out of order and the merged file
\* was extracted
C9_Witness ==
    /\ ea.pc = "returned" /\ Len(ea.attempts) = 2
    /\ ea.archive.parts = <<in_dir \o <<"x.7z.002">>, in_dir \o <<"x.7z.001">> >>
    /\ IsFile(fs, ea.out \o <<"movie.txt">>)

\* C10: when extract_archive has returned or raised, the merged file does not exist
C10_MergedFileRemoved == EaOver => ~Exists(fs, merged_path(ea.archive, ea.out))

\* C10, reached: the call raised after the merged file had been created
C10_Witness == ea.pc = "raised" /\ ea.created /\ Len(ea.attempts) = 2

\* C11: when a unit of one fragment fails in its direct extraction, extract_archive
\* raises at once: no merged file is created and no second extraction is tried
C11_SinglePartFailsAtOnce ==
    (ea.pc \in {"merge", "retry", "finally", "returned", "raised"}
       /\ Len(ea.archive.parts) = 1 /\ Len(ea.attempts) >= 1 /\ ~ea.attempts[1].ok) =>
        /\ ea.pc = "raised"
        /\ Len(ea.attempts) = 1
        /\ ~ea.created
        /\ ~Exists(fs, merged_path(ea.archive, ea.out))

\* C11, reached: the direct extraction of a one-fragment unit failed
C11_Witness ==
    /\ ea.pc = "raised" /\ Len(ea.archive.parts) = 1
    /\ Len(ea.attempts) = 1 /\ ~ea.attempts[1].ok

\* C12: cleanup deletes a source entry only if that entry itself was processed: no
\* step removes a source entry for which no ledger record with its own source path
\* was written
C12_CleanupDeletesOnlyProcessed ==
    [][\A item \in IterDir(fs, source_dir) :
           ~Exists(fs', item) => \E i \in 1..Len(history) : history[i].src_path = item]_vars

\* two files are numbered parts of one archive in one directory
SiblingParts(p, q) ==
    /\ Parent(p) = Parent(q)
    /\ IsNumberedPart(Name(p)) /\ IsNumberedPart(Name(q))
    /\ PartStem(Name(p)) = PartStem(Name(q))

\* C13: the fragment files of one multi-part archive lying directly under the source
\* root are one item with one identity key: A.zip, A.part001.rar and A.part002.rar
\* are collected as exactly two identities
C13_FragmentsOneIdentity ==
    (trace.last = "start" /\ run = 1) =>
        /\ \A p, q \in IterDir(fs, source_dir) :
              (IsFile(fs, p) /\ IsFile(fs, q) /\ SiblingParts(p, q)) =>
                  /\ get_path_id(fs, p) = get_path_id(fs, q)
                  /\ \E i \in 1..Len(todo) : {p, q} \subseteq todo[i].files
        /\ {Name(p) : p \in IterDir(fs, source_dir)} = {"A.zip", "A.part001.rar", "A.part002.rar"}
              => Len(todo) = 2

\* _collect_multipart_archive has returned or raised
Collected == fc.pc = "done" /\ fc.op = "collect"

\* the name ends in .7z.NNN or .zip.NNN
IsDottedPart(name) ==
    EndsWithPart(Lower(name), ".7z.") \/ EndsWithPart(Lower(name), ".zip.")

\* the files of the directory that are dotted parts of the file's archive
Family(file_path) ==
    {g \in IterDir(fs, Parent(file_path)) :
        /\ IsFile(fs, g) /\ IsDottedPart(Name(g))
        /\ PartStem(Name(g)) = PartStem(Name(file_path))}

\* the file is one of N dotted parts 001 .. N, and no other entry of the directory
\* has a name that starts with their base name
DottedSet(file_path) ==
    /\ IsDottedPart(Name(file_path))
    /\ {PartNumber(Name(g)) : g \in Family(file_path)} = 1..Cardinality(Family(file_path))
    /\ \A g \in IterDir(fs, Parent(file_path)) \ Family(file_path) :
          ~StartsWith(Lower(Name(g)), multipart_base(Name(file_path)).base)

C15_CollectPlainIsItself ==
    (Collected /\ ~is_multipart_archive(Name(fc.arg))) =>
        /\ fc.result.ok
        /\ fc.result.parts = <<fc.arg>>

\* C16: the collection returns only entries of the file's own directory whose name
\* is the derived base name followed by a multi-part suffix
C16_CollectOnlyOwnParts ==
    (Collected /\ fc.result.ok) =>
        \A g \in Range(fc.result.parts) :
            /\ Parent(g) = Parent(fc.arg)
            /\ LET n    == Lower(Name(g))
                   base == multipart_base(Name(fc.arg)).base
               IN  \/ StartsWith(n, base \o ".7z.") /\ EndsWithPart(n, ".7z.")
                   \/ StartsWith(n, base \o ".zip.") /\ EndsWithPart(n, ".zip.")
                   \/ StartsWith(n, base \o ".part")

\* the calls of detect_archive_type made so far
Detections == IF fc.op = "detect" THEN Range(fc.result) ELSE {}

\* the calls whose file was read
Readings == {c \in Detections : c.io = "ok" /\ IsFile(fs, c.path)}

\* the bytes of the file of a call, in hex
Content(c) == Bytes(BlobAt(fs, c.path))

\* the shortest magic sequence, in hex digits
ShortestMagic == SetMin({Len(SEVEN_ZIP_HEADER), Len(ZIP_HEADER), Len(RAR_HEADER)})

\* C17: detect_archive_type returns the format whose magic sequence the file starts
\* with, and UNKNOWN for an empty file, for a file shorter than every magic sequence
\* and for a file that starts with none
C17_DetectByMagic ==
    \A c \in Readings :
        /\ StartsWith(Content(c), SEVEN_ZIP_HEADER) => c.type = SEVEN_ZIP
        /\ StartsWith(Content(c), ZIP_HEADER) => c.type = ZIP
        /\ StartsWith(Content(c), RAR_HEADER) => c.type = RAR
        /\ Content(c) = "" => c.type = UNKNOWN
        /\ Len(Content(c)) < ShortestMagic => c.type = UNKNOWN
        /\ (/\ ~StartsWith(Content(c), SEVEN_ZIP_HEADER)
            /\ ~StartsWith(Content(c), ZIP_HEADER)
            /\ ~StartsWith(Content(c), RAR_HEADER)) => c.type = UNKNOWN

\* C17, reached: a file of more than twenty bytes that starts with the 7z magic was
\* classified, and a file cut short inside a magic sequence
C17_Witness ==
    /\ \E c \in Readings :
          StartsWith(Content(c), SEVEN_ZIP_HEADER) /\ Len(Content(c)) > 2 * HEADER_BYTES
    /\ \E c \in Readings : Content(c) # "" /\ Len(Content(c)) < ShortestMagic

\* C18: detect_archive_type never raises: UNKNOWN when the file cannot be opened or
\* read (missing, a directory, permission refused); and it changes no file
C18_DetectNeverRaises ==
    \A c \in Detections :
        /\ c.type # RAISED
        /\ (c.io = "denied" \/ ~IsFile(fs, c.path)) => c.type = UNKNOWN
        /\ c.after = fs

\* C18, reached: called on a missing file, and on a file whose read was refused
C18_Witness ==
    /\ \E c \in Detections : ~Exists(fs, c.path)
    /\ \E c \in Detections : c.io = "denied" /\ IsFile(fs, c.path)

\* the leading HEADER_BYTES bytes, in hex
Leading(h) == IF Len(h) > 2 * HEADER_BYTES THEN SubSeq(h, 1, 2 * HEADER_BYTES) ELSE h

\* C19: two files with the same leading 20 bytes get the same type whatever their
\* names, and so does one unchanged file read twice
C19_TypeFromBytesOnly ==
    \A c, d \in Readings : Leading(Content(c)) = Leading(Content(d)) => c.type = d.type

\* C19, reached: two files of different names and extensions, different after their
\* twentieth byte, both classified as zip
C19_Witness ==
    \E c, d \in Readings :
        /\ Suffix(Name(c.path)) = ".txt" /\ Suffix(Name(d.path)) = ".7z"
        /\ Content(c) # Content(d)
        /\ Leading(Content(c)) = Leading(Content(d))
        /\ c.type = ZIP

\* the container folder of the current item
Container == target_dir \o <<generate_folder_name(cur.id)>>

\* the container is there and holds exactly the outbound tree _move_to_target
\* found, nothing of what lay there before, and outbound staging holds no file
ContainerIsOutboundTree ==
    /\ IsDir(fs, Container)
    /\ TreeUnder(fs, Container) = trace.tree
    /\ get_file_list(fs, temp3_of(cur.id)) = {}

Waiting == {todo[i].id : i \in 1..Len(todo)}

\* C21: an exception raised while one id is processed never ends the run: while
\* process_archives is in its loop every collected id has been taken up or is
\* still waiting, and when the loop is over every collected id was taken up
C21_FailureKeepsRemaining ==
    /\ pc \notin {"idle"} => trace.collected = trace.begun \cup Waiting
    /\ trace.last = "ran" => trace.collected = trace.begun

\* an id was processed to its ledger record after another id of the run raised
C21_Witness ==
    /\ trace.last = "saved"
    /\ trace.raised # {}
    /\ cur.id \notin trace.raised

\* C22: a ledger call that raises ends the run: no further id is taken up and
\* process_archives does not return normally
C22_LedgerFailureFatal ==
    trace.ledger_failed => trace.last \in {"query_failed", "save_failed"}

\* C23: with skip_parent_levels = N > 0, a staged file whose relative path has at
\* most N segments lies, after the item was relocated and recorded, directly under
\* the target root under its own name
C23_ShortPathsByOwnName ==
    (trace.last = "saved" /\ cfg.skip > 0) =>
        \A r \in trace.staged :
            Len(r) <= cfg.skip => IsFile(fs, target_dir \o <<Name(r)>>)

\* C24: a step of the loop of _process_unzip_temp_archives that extracted a unit
\* leaves none of the unit's fragments in inbound staging, and a step whose
\* extraction raised leaves every fragment of the unit where and as it was
C24_FragmentsRemovedOnSuccessOnly ==
    [][(pc = "files" /\ flist' # flist /\ trace' # trace) =>
          LET parts == Range(trace'.handed.parts)
          IN  /\ trace'.last = "nested_relocated" =>
                    /\ parts # {}
                    /\ \A p \in parts : IsFile(fs, p) /\ ~IsFile(fs', p)
              /\ trace'.last = "nested_failed" =>
                    /\ parts # {}
                    /\ \A p \in parts : /\ IsFile(fs, p) /\ IsFile(fs', p)
                                        /\ BlobAt(fs', p) = BlobAt(fs, p)]_vars

\* a nested extraction raised and its fragment is still in inbound staging, after
\* another nested unit of the item was extracted and its fragment removed
C24_Witness ==
    /\ trace.last = "nested_failed"
    /\ \A p \in Range(trace.handed.parts) : IsFile(fs, p)
    /\ \E p \in trace.extracted : IsPrefix(unzip_temp_dir, p) /\ ~Exists(fs, p)

\* C25: a unit handed to extract_archive has at least one fragment, its first
\* fragment is its head file, and fragments that are the numbered parts of one
\* archive follow each other in ascending part number
C25_UnitFragmentsAscending ==
    trace.last \in {"relocated", "extract_failed", "nested_relocated", "nested_failed"} =>
        /\ Len(trace.handed.parts) >= 1
        /\ trace.handed.parts[1] = trace.handed.path
        /\ InPartOrder(trace.handed.parts)

(***************************************************************************)
(* The target root                                                         *)
(***************************************************************************)

\* C26: while a run goes on, every file relocated for an id that the run recorded
\* in the ledger is still under the target root, for every skip_parent_levels
C26_RecordedOutputKept ==
    ~trace.cleaned => \A n \in trace.outputs : n \in fs

\* the entries of a whole archive that are no archives: what stays in outbound
\* staging after _move_archives_to_zip_temp
PlainOutput(b) ==
    {e \in Entries(b) : PlainBlob(e.blob) /\ ~is_multipart_archive(Name(e.path))}

\* C27: when the staging loop of an item is over, the plain files extracted from
\* every unit that was extracted, the earlier ones too, are in the item's outbound
\* staging directory
C27_EarlierOutputKept ==
    trace.last = "staged" =>
        \A u \in trace.extracted :
            (IsFile(fs, u) /\ Complete(BlobAt(fs, u))) =>
                \A e \in PlainOutput(BlobAt(fs, u)) : IsFile(fs, temp3_of(cur.id) \o e.path)

\* C28: cleanup deletes no file under the target root that the run relocated for an
\* id it recorded in the ledger
C28_CleanupKeepsRecordedOutput ==
    [][(trace'.last = "cleaned" /\ trace.last = "ran") =>
          \A n \in trace.outputs : n \in fs => n \in fs']_vars

\* a member file of the current item that is a whole archive on its own
WholeArchive(q) ==
    /\ q \in cur.files /\ IsFile(fs, q)
    /\ detect_archive_type(fs, q) # UNKNOWN
    /\ Complete(BlobAt(fs, q))
    /\ ~IsNumberedPart(Name(q))

\* C29: every member file that is a whole archive on its own is the head of a unit
\* of its own, and a unit with more than one fragment holds the numbered parts of one
\* archive only
C29_IndependentArchivesApart ==
    (pc = "stage" /\ trace.last = "prepared") =>
        /\ \A q \in cur.files :
              WholeArchive(q) => \E i \in 1..Len(units) : units[i].path = q
        /\ \A i \in 1..Len(units) :
              Len(units[i].parts) > 1 => PartsOfOne(units[i].parts)

\* what lies under the source root
SourceTree(f) == {n \in f : IsPrefix(source_dir, n.path)}

\* C30: no step of process_archives creates, changes or deletes anything under the
\* source root; only cleanup does
C30_SourceUntouched ==
    [][trace'.last # "cleaned" => SourceTree(fs') = SourceTree(fs)]_vars

\* a run is over in which items were extracted, relocated and recorded, and the
\* source entries of the items it recorded are all still there
C30_Witness ==
    /\ trace.last = "ran" /\ trace.outputs # {}
    /\ \A i \in 1..Len(history) : history[i].date = run => Exists(fs, history[i].src_path)
    /\ \E i \in 1..Len(history) : history[i].date = run

=============================================================================
